---- MODULE Spec2Model ----
(***************************************************************************)
(* fireworkers: the DBProvider singleton (src/db-provider.ts), the          *)
(* FireworkersDataHelper wrapper (src/data-helper.ts) over the injected    *)
(* transport operations {set, update, remove, query}, and the transport    *)
(* functions get (src/get.ts) and update (src/update.ts) over fetch.       *)
(*                                                                         *)
(* JavaScript strings that the code inspects or builds (ids, paths, field  *)
(* names, project ids) are sequences of one-character strings; messages   *)
(* and tokens, which the code only passes along, are TLA+ strings.         *)
(* A native JavaScript value is a record [t |-> its type, <payload>].       *)
(* A function that can throw returns Ok(value) or Err(message).            *)
(***************************************************************************)
EXTENDS Integers, Sequences, FiniteSets, TLC

VARIABLES
  db,        \* DBProvider.db: NULL or the DB handle held by the singleton
  inflight,  \* initialize() calls suspended at `await init(params)`, in start order;
             \* each entry holds the call's params and a history flag `superseded`
  helper,    \* the FireworkersDataHelper the caller holds, or NoHelper
  last,      \* the call the caller made last and its arguments, or Idle
  outcome,   \* what that call did: Ok(..) or Err(message)
  calls      \* the transport operations that call invoked, in order

vars == <<db, inflight, helper, last, outcome, calls>>

\* ------------------------------------------------------------------ bounds

MaxInflight == 2     \* overlapping initialize() calls
MaxIds      == 11    \* longest id list handed to getDocsByIds / an IN filter
MaxNodes    == 4     \* nodes (leaves and groups) of a filter list
MaxLimit    == 2     \* largest limit handed to getData
MaxIdLen    == 3     \* longest document id / path operand, in characters
MaxPathLen  == 6     \* longest collection path string, in characters
MaxSegments == 3     \* longest collection path given as a list of segments
MaxFields   == 2     \* most keys of the fields handed to update
MaxValueNodes == 3   \* nodes (leaves, arrays and maps) of a value handed to the sanitiser

\* --------------------------------------------------------------- JS values

NULL      == [null |-> TRUE]
Undefined == [undefined |-> TRUE]
EmptyRec  == [k \in {} |-> TRUE]

Ok(v)  == [ok |-> TRUE, val |-> v]
Err(m) == [ok |-> FALSE, err |-> m]

JsUndefined   == [t |-> "undefined"]
JsNull        == [t |-> "null"]
JsBool(b)     == [t |-> "boolean", b |-> b]
JsNum(n)      == [t |-> "number", n |-> n]
JsStr(s)      == [t |-> "string", s |-> s]
JsArr(a)      == [t |-> "array", a |-> a]
JsObj(e)      == [t |-> "object", e |-> e]   \* e: entries <<[key, val], ..>> in insertion order
JsDate(ms)    == [t |-> "date", ms |-> ms]   \* new Date(ms)
JsBytes(u)    == [t |-> "bytes", u |-> u]    \* Uint8Array.from(u)

\* ----------------------------------------------------------------- strings

\* String.prototype.includes for a one-character needle
Includes(s, c) == \E i \in 1..Len(s) : s[i] = c

RECURSIVE StripLeading(_, _)
\* s.replace(/^c+/, '')
StripLeading(s, c) ==
  IF s # <<>> /\ Head(s) = c THEN StripLeading(Tail(s), c) ELSE s

RECURSIVE Join(_, _)
\* Array.prototype.join
Join(segs, sep) ==
  IF segs = <<>> THEN <<>>
  ELSE IF Len(segs) = 1 THEN segs[1]
  ELSE segs[1] \o <<sep>> \o Join(Tail(segs), sep)

RECURSIVE Split(_, _)
\* String.prototype.split: ''.split('/') is [''], 'a//b' is ['a', '', 'b']
Split(s, sep) ==
  IF ~Includes(s, sep) THEN <<s>>
  ELSE LET i == CHOOSE k \in 1..Len(s) : s[k] = sep /\ \A j \in 1..(k - 1) : s[j] # sep
       IN  <<SubSeq(s, 1, i - 1)>> \o Split(SubSeq(s, i + 1, Len(s)), sep)

\* -------------------------------------------------------------- DBProvider

NOT_INITIALIZED ==
  "DBProvider has not been initialized. Call DBProvider.getInstance().initialize() first."

\* init(params): the token mint. It resolves to the session handle
\* {project_id, jwt} of the credentials' project, or rejects.
init(params) ==
  { Ok([project_id |-> params.project_id, jwt |-> <<"jwt", params.uid>>]),
    Err("AuthExchangeError") }

\* getDB() without its guard: returns whatever is held
DBProvider_getDB_unguarded(d) == Ok(d)

\* DBProvider.getDB(), on the held handle d
DBProvider_getDB(d) == IF d = NULL THEN Err(NOT_INITIALIZED) ELSE Ok(d)

\* DBProvider.isInitialized()
isInitialized(d) == d # NULL

\* DBProvider.reset(): the handle held afterwards
reset(d) == NULL

\* initialize() dropping the held handle when the mint fails
initialize_clearsOnFailure(d, settled) == IF settled.ok THEN settled.val ELSE NULL

\* `this.db = await init(params)`: the handle held once init(params) has
\* settled; on a rejection the await throws and the assignment never runs
initialize(d, settled) == IF settled.ok THEN settled.val ELSE d

\* ------------------------------------------------------- data-helper.ts

DataFilterType ==
  [isEqualTo |-> 0, isNotEqualTo |-> 1, isLessThan |-> 2, isLessThanOrEqualTo |-> 3,
   isGreaterThan |-> 4, isGreaterThanOrEqualTo |-> 5, arrayContains |-> 6,
   arrayContainsAny |-> 7, whereIn |-> 8, whereNotIn |-> 9]

DataFilterWrapperType == [or |-> 0, and |-> 1]

\* new DataFilter(fieldName, value, filterType)
DataFilter(fieldName, value, filterType) ==
  [fieldName |-> fieldName, value |-> value, filterType |-> filterType]

\* new DataFilterWrapper(filterWrapperType, filters)
DataFilterWrapper(filterWrapperType, filters) ==
  [filterWrapperType |-> filterWrapperType, filters |-> filters]

DOCUMENT_ID_FIELD == <<"_", "_", "n", "a", "m", "e", "_", "_">>

MAX_IN_FILTER_VALUES == 10

\* `Firestore supports a maximum of ${MAX_IN_FILTER_VALUES} ids per request.`
MAX_IDS_MESSAGE == "Firestore supports a maximum of 10 ids per request."

DOCUMENT_ID_VALUE_MESSAGE == "Document id filters require a non-empty string value."

DOCUMENT_ID_MESSAGE == "Document ids cannot be empty or contain slashes."

NO_SEGMENT_MESSAGE == "Collection path must include at least one segment."

EVEN_PATH_MESSAGE == "Collection path must end in a collection identifier."

FILTER_TYPE_TO_OPERATOR(filterType) ==
  CASE filterType = DataFilterType.isEqualTo -> "EQUAL"
    [] filterType = DataFilterType.isNotEqualTo -> "NOT_EQUAL"
    [] filterType = DataFilterType.isLessThan -> "LESS_THAN"
    [] filterType = DataFilterType.isLessThanOrEqualTo -> "LESS_THAN_OR_EQUAL"
    [] filterType = DataFilterType.isGreaterThan -> "GREATER_THAN"
    [] filterType = DataFilterType.isGreaterThanOrEqualTo -> "GREATER_THAN_OR_EQUAL"
    [] filterType = DataFilterType.arrayContains -> "ARRAY_CONTAINS"
    [] filterType = DataFilterType.arrayContainsAny -> "ARRAY_CONTAINS_ANY"
    [] filterType = DataFilterType.whereIn -> "IN"
    [] filterType = DataFilterType.whereNotIn -> "NOT_IN"

\* filterWrapperType !== undefined && Array.isArray(filters)
isDataFilterWrapper(filter) ==
  "filterWrapperType" \in DOMAIN filter /\ "filters" \in DOMAIN filter

NoHelper == [none |-> TRUE]

\* the constructor without its parity check: a document path is accepted too
constructor_noParityCheck(collectionPath, dbArg) ==
  LET normalizedPath == IF collectionPath.t = "array" THEN collectionPath.a
                        ELSE Split(collectionPath.s, "/")
      collectionSegments == SelectSeq(normalizedPath, LAMBDA segment : Len(segment) # 0)
  IN  IF Len(collectionSegments) = 0 THEN Err(NO_SEGMENT_MESSAGE)
      ELSE Ok([db |-> dbArg,
               collectionSegments |-> collectionSegments,
               collectionId |-> collectionSegments[Len(collectionSegments)],
               parentDocumentSegments |->
                 SubSeq(collectionSegments, 1, Len(collectionSegments) - 1)])

\* new FireworkersDataHelper(collectionPath, db): collectionPath is a
\* JsStr or a JsArr of segments; dbArg is a handle, or NULL when omitted
\* (`db ?? null`).  The helper built, or the error thrown.
constructor(collectionPath, dbArg) ==
  LET normalizedPath == IF collectionPath.t = "array" THEN collectionPath.a
                        ELSE Split(collectionPath.s, "/")
      collectionSegments == SelectSeq(normalizedPath, LAMBDA segment : Len(segment) # 0)
  IN  IF Len(collectionSegments) = 0 THEN Err(NO_SEGMENT_MESSAGE)
      ELSE IF Len(collectionSegments) % 2 = 0 THEN Err(EVEN_PATH_MESSAGE)
      ELSE Ok([db |-> dbArg,
               collectionSegments |-> collectionSegments,
               collectionId |-> collectionSegments[Len(collectionSegments)],
               parentDocumentSegments |->
                 SubSeq(collectionSegments, 1, Len(collectionSegments) - 1)])

\* getDocumentPath refusing only the empty id
getDocumentPath_slashAllowed(h, docId) ==
  IF Len(docId) = 0 THEN Err(DOCUMENT_ID_MESSAGE)
  ELSE Ok(Append(h.collectionSegments, docId))

\* FireworkersDataHelper.getDB(): the given db, else the provider's (held: d)
getDB(h, d) == IF h.db # NULL THEN Ok(h.db) ELSE DBProvider_getDB(d)

\* `projects/` and `/databases/(default)/documents/` of the reference template
PROJECTS == <<"p", "r", "o", "j", "e", "c", "t", "s", "/">>

DATABASES_DOCUMENTS ==
  <<"/", "d", "a", "t", "a", "b", "a", "s", "e", "s", "/", "(", "d", "e", "f", "a",
    "u", "l", "t", ")", "/", "d", "o", "c", "u", "m", "e", "n", "t", "s", "/">>

\* buildDocumentReferencePath scoping a bare id by the collection id alone
buildDocumentReferencePath_idOnly(h, d, docIdOrPath) ==
  LET hasPathSeparator == Includes(docIdOrPath, "/")
      relativePath == IF hasPathSeparator THEN StripLeading(docIdOrPath, "/")
                      ELSE Join(<<h.collectionId, docIdOrPath>>, "/")
      handle == getDB(h, d)
  IN  IF ~handle.ok THEN handle
      ELSE Ok(PROJECTS \o handle.val.project_id \o DATABASES_DOCUMENTS \o relativePath)

buildDocumentReferencePath(h, d, docIdOrPath) ==
  LET hasPathSeparator == Includes(docIdOrPath, "/")
      relativePath == IF hasPathSeparator THEN StripLeading(docIdOrPath, "/")
                      ELSE Join(Append(h.collectionSegments, docIdOrPath), "/")
      handle == getDB(h, d)
  IN  IF ~handle.ok THEN handle
      ELSE Ok(PROJECTS \o handle.val.project_id \o DATABASES_DOCUMENTS \o relativePath)

RECURSIVE buildDocumentNameValue(_, _, _)
RECURSIVE mapDocumentNameValue(_, _, _)
\* value.map((entry) => this.buildDocumentNameValue(entry)): the first throw ends it
mapDocumentNameValue(h, d, entries) ==
  IF entries = <<>> THEN Ok(<<>>)
  ELSE LET first == buildDocumentNameValue(h, d, Head(entries))
       IN  IF ~first.ok THEN first
           ELSE LET rest == mapDocumentNameValue(h, d, Tail(entries))
                IN  IF ~rest.ok THEN rest ELSE Ok(<<first.val>> \o rest.val)

buildDocumentNameValue(h, d, value) ==
  IF value.t = "array"
  THEN LET values == mapDocumentNameValue(h, d, value.a)
       IN  IF ~values.ok THEN values ELSE Ok([arrayValue |-> [values |-> values.val]])
  ELSE IF value.t # "string" \/ Len(value.s) = 0 THEN Err(DOCUMENT_ID_VALUE_MESSAGE)
  ELSE LET referencePath == buildDocumentReferencePath(h, d, value.s)
       IN  IF ~referencePath.ok THEN referencePath
           ELSE Ok([referenceValue |-> referencePath.val])

getDocumentPath(h, docId) ==
  IF Len(docId) = 0 \/ Includes(docId, "/") THEN Err(DOCUMENT_ID_MESSAGE)
  ELSE Ok(Append(h.collectionSegments, docId))

\* the property name of index i of an array-like: '0', '1', '2', ..
IndexKey(i) == <<"0", "1", "2", "3", "4", "5", "6", "7", "8", "9">>[i + 1]

\* Object.entries(value) for an object: the own enumerable string-keyed
\* properties.  A plain object has its entries, a Date has none, a typed
\* array has one per index.
ObjectEntries(value) ==
  CASE value.t = "object" -> value.e
    [] value.t = "date" -> <<>>
    [] value.t = "bytes" -> [i \in 1..Len(value.u) |-> [key |-> IndexKey(i - 1), val |-> JsNum(value.u[i])]]

RECURSIVE replaceUndefinedWithNull(_)
replaceUndefinedWithNull(value) ==
  IF value.t = "undefined" THEN JsNull
  ELSE IF value.t = "array"
  THEN JsArr([i \in 1..Len(value.a) |-> replaceUndefinedWithNull(value.a[i])])
  ELSE IF value.t \in {"object", "date", "bytes"}
  THEN LET entries == ObjectEntries(value)
       IN  JsObj([i \in 1..Len(entries) |->
                    [key |-> entries[i].key, val |-> replaceUndefinedWithNull(entries[i].val)]])
  ELSE value

RECURSIVE convert_field_to_value(_)
\* fields.ts, the value codec's encode: one wire variant per native shape
convert_field_to_value(field) ==
  CASE field.t \in {"null", "undefined"} -> [nullValue |-> "NULL_VALUE"]
    [] field.t = "boolean" -> [booleanValue |-> field.b]
    [] field.t = "number" -> [integerValue |-> field.n]
    [] field.t = "string" -> [stringValue |-> field.s]
    [] field.t = "bytes" -> [bytesValue |-> [base64 |-> field.u]]
    [] field.t = "date" -> [timestampValue |-> [rfc3339 |-> field.ms]]
    [] field.t = "array" ->
         [arrayValue |-> [values |-> [i \in 1..Len(field.a) |->
                                        convert_field_to_value(field.a[i])]]]
    [] field.t = "object" ->
         [mapValue |-> [fields |-> [i \in 1..Len(field.e) |->
                          [key |-> field.e[i].key,
                           val |-> convert_field_to_value(field.e[i].val)]]]]

\* buildFieldValue taking any path-like string for a document reference
buildFieldValue_pathsAreReferences(h, d, fieldName, value) ==
  IF fieldName = DOCUMENT_ID_FIELD \/ (value.t = "string" /\ Includes(value.s, "/"))
  THEN buildDocumentNameValue(h, d, value)
  ELSE Ok(convert_field_to_value(replaceUndefinedWithNull(value)))

buildFieldValue(h, d, fieldName, value) ==
  IF fieldName = DOCUMENT_ID_FIELD THEN buildDocumentNameValue(h, d, value)
  ELSE Ok(convert_field_to_value(replaceUndefinedWithNull(value)))

\* combineFilters testing for the wrong combinator
combineFilters_swapped(type, filters) ==
  [compositeFilter |->
     [op |-> IF type = DataFilterWrapperType.or THEN "AND" ELSE "OR",
      filters |-> filters]]

combineFilters(type, filters) ==
  [compositeFilter |->
     [op |-> IF type = DataFilterWrapperType.and THEN "AND" ELSE "OR",
      filters |-> filters]]

RECURSIVE buildFilters(_, _, _, _)
RECURSIVE buildFilter(_, _, _)
RECURSIVE mapBuildFilter(_, _, _)
\* filters.map((filter) => this.buildFilter(filter)): the first throw ends it
mapBuildFilter(h, d, filters) ==
  IF filters = <<>> THEN Ok(<<>>)
  ELSE LET first == buildFilter(h, d, Head(filters))
       IN  IF ~first.ok THEN first
           ELSE LET rest == mapBuildFilter(h, d, Tail(filters))
                IN  IF ~rest.ok THEN rest ELSE Ok(<<first.val>> \o rest.val)

\* buildFilters without the single-child shortcut: one built filter is wrapped too
buildFilters_alwaysWraps(h, d, filters, wrapperType) ==
  LET mapped == mapBuildFilter(h, d, filters)
  IN  IF ~mapped.ok THEN mapped
      ELSE LET builtFilters == SelectSeq(mapped.val, LAMBDA filter : filter # Undefined)
           IN  IF Len(builtFilters) = 0 THEN Ok(Undefined)
               ELSE Ok([compositeFilter |->
                          [op |-> IF wrapperType = DataFilterWrapperType.and THEN "AND" ELSE "OR",
                           filters |-> builtFilters]])

\* Ok(a Firestore.Filter), Ok(Undefined), or the error thrown
buildFilters(h, d, filters, wrapperType) ==
  LET mapped == mapBuildFilter(h, d, filters)
  IN  IF ~mapped.ok THEN mapped
      ELSE LET builtFilters == SelectSeq(mapped.val, LAMBDA filter : filter # Undefined)
           IN  IF Len(builtFilters) = 0 THEN Ok(Undefined)
               ELSE IF Len(builtFilters) = 1 THEN Ok(builtFilters[1])
               ELSE Ok(combineFilters(wrapperType, builtFilters))

buildFilter(h, d, filter) ==
  IF isDataFilterWrapper(filter)
  THEN buildFilters(h, d, filter.filters, filter.filterWrapperType)
  ELSE LET value == buildFieldValue(h, d, filter.fieldName, filter.value)
       IN  IF ~value.ok THEN value
           ELSE Ok([fieldFilter |->
                      [field |-> [fieldPath |-> filter.fieldName],
                       op |-> FILTER_TYPE_TO_OPERATOR(filter.filterType),
                       value |-> value.val]])

\* What an operation did: what it returned or threw, and its transport calls.
Did(out, transport) == [out |-> out, calls |-> transport]

\* The operation went on to `await` the one transport call it made.
AWAITED == [awaits |-> "the transport call"]

\* the query aimed at the first segment of the path instead of the last
queryFrom_firstSegment(h) == [from |-> <<[collectionId |-> h.collectionSegments[1]]>>]

\* from: [{ collectionId: this.collectionId }]
queryFrom(h) == [from |-> <<[collectionId |-> h.collectionId]>>]

\* params?.filters?.length ? this.buildFilters(params.filters, and) : undefined
queryWhere(h, d, params) ==
  IF "filters" \in DOMAIN params /\ Len(params.filters) # 0
  THEN buildFilters(h, d, params.filters, DataFilterWrapperType.and)
  ELSE Ok(Undefined)

\* if (params?.limit) structuredQuery.limit = params.limit
queryLimit(params) ==
  IF "limit" \in DOMAIN params /\ params.limit # 0
  THEN [limit |-> params.limit] ELSE EmptyRec

\* queryOrderBy ignoring the flag: every sort goes out ascending
queryOrderBy_alwaysAscending(params) ==
  IF "sortBy" \in DOMAIN params
  THEN [orderBy |->
          <<[field |-> [fieldPath |-> params.sortBy.field], direction |-> "ASCENDING"]>>]
  ELSE EmptyRec

\* if (params?.sortBy) structuredQuery.orderBy = [...]
queryOrderBy(params) ==
  IF "sortBy" \in DOMAIN params
  THEN [orderBy |->
          <<[field |-> [fieldPath |-> params.sortBy.field],
             direction |-> IF params.sortBy.ascending THEN "ASCENDING" ELSE "DESCENDING"]>>]
  ELSE EmptyRec

\* this.operations.query(this.getDB(), structuredQuery, ...this.parentDocumentSegments)
runQuery(h, d, structuredQuery) ==
  LET handle == getDB(h, d)
  IN  IF ~handle.ok THEN Did(handle, <<>>)
      ELSE Did(Ok(AWAITED),
               <<[op |-> "query", db |-> handle.val, structuredQuery |-> structuredQuery,
                  paths |-> h.parentDocumentSegments]>>)

\* getData(params); an absent key of params is a key not in its domain
getData(h, d, params) ==
  LET where == queryWhere(h, d, params)
  IN  IF ~where.ok THEN Did(where, <<>>)
      ELSE runQuery(h, d,
             queryFrom(h)
               @@ (IF where.val # Undefined THEN [where |-> where.val] ELSE EmptyRec)
               @@ queryLimit(params)
               @@ queryOrderBy(params))

getSingleDocument(h, d, docId) ==
  LET value == buildDocumentNameValue(h, d, JsStr(docId))
  IN  IF ~value.ok THEN Did(value, <<>>)
      ELSE runQuery(h, d,
             queryFrom(h)
               @@ [where |-> [fieldFilter |-> [field |-> [fieldPath |-> DOCUMENT_ID_FIELD],
                                               op |-> "EQUAL",
                                               value |-> value.val]],
                   limit |-> 1])

\* getDocsByIds with the ceiling off by one: ten ids are refused too
getDocsByIds_offByOne(h, d, ids) ==
  IF Len(ids) = 0 THEN Did(Ok([documents |-> <<>>]), <<>>)
  ELSE IF Len(ids) >= MAX_IN_FILTER_VALUES THEN Did(Err(MAX_IDS_MESSAGE), <<>>)
  ELSE LET value == buildDocumentNameValue(h, d, JsArr([i \in 1..Len(ids) |-> JsStr(ids[i])]))
       IN  IF ~value.ok THEN Did(value, <<>>)
           ELSE runQuery(h, d,
                  queryFrom(h)
                    @@ [where |-> [fieldFilter |->
                                     [field |-> [fieldPath |-> DOCUMENT_ID_FIELD],
                                      op |-> "IN",
                                      value |-> value.val]]])

getDocsByIds(h, d, ids) ==
  IF Len(ids) = 0 THEN Did(Ok([documents |-> <<>>]), <<>>)
  ELSE IF Len(ids) > MAX_IN_FILTER_VALUES THEN Did(Err(MAX_IDS_MESSAGE), <<>>)
  ELSE LET value == buildDocumentNameValue(h, d, JsArr([i \in 1..Len(ids) |-> JsStr(ids[i])]))
       IN  IF ~value.ok THEN Did(value, <<>>)
           ELSE runQuery(h, d,
                  queryFrom(h)
                    @@ [where |-> [fieldFilter |->
                                     [field |-> [fieldPath |-> DOCUMENT_ID_FIELD],
                                      op |-> "IN",
                                      value |-> value.val]]])

\* merge: "true", "false", or "omitted" (the default parameter value is false)
addData(h, d, data, docId, merge) ==
  LET sanitized == replaceUndefinedWithNull(data)
      documentPath == getDocumentPath(h, docId)
      handle == getDB(h, d)
  IN  IF ~documentPath.ok THEN Did(documentPath, <<>>)
      ELSE IF ~handle.ok THEN Did(handle, <<>>)
      ELSE Did(Ok(AWAITED),
               <<[op |-> "set", db |-> handle.val, paths |-> documentPath.val,
                  fields |-> sanitized]
                 @@ (IF merge = "true" THEN [options |-> [merge |-> TRUE]] ELSE EmptyRec)>>)

\* this.operations.update(this.db!, ...documentPath, sanitized)
updateField(h, d, docId, updateFields) ==
  LET sanitized == replaceUndefinedWithNull(updateFields)
      documentPath == getDocumentPath(h, docId)
  IN  IF ~documentPath.ok THEN Did(documentPath, <<>>)
      ELSE Did(Ok(AWAITED),
               <<[op |-> "update", db |-> h.db, paths |-> documentPath.val,
                  fields |-> sanitized]>>)

\* this.operations.remove(this.db!, ...documentPath)
deleteDocument(h, d, docId) ==
  LET documentPath == getDocumentPath(h, docId)
  IN  IF ~documentPath.ok THEN Did(documentPath, <<>>)
      ELSE Did(Ok(AWAITED), <<[op |-> "remove", db |-> h.db, paths |-> documentPath.val]>>)

\* --------------------------------------------------- get.ts and update.ts

\* utils.ts, get_firestore_endpoint: the URL of the resource named by the
\* path under the project's default database, with no search parameter yet
get_firestore_endpoint(project_id, paths) ==
  [resource |-> PROJECTS \o project_id \o DATABASES_DOCUMENTS \o Join(paths, "/"),
   searchParams |-> <<>>]

\* fields.ts, create_document_from_fields: the bare fields-map payload of a write
create_document_from_fields(fields) ==
  [fields |-> [i \in 1..Len(fields.e) |->
                 [key |-> fields.e[i].key, val |-> convert_field_to_value(fields.e[i].val)]]]

RECURSIVE decode(_)
\* fields.ts, the value codec's decode: one native shape per wire variant
decode(wire) ==
  CASE "nullValue" \in DOMAIN wire -> JsNull
    [] "booleanValue" \in DOMAIN wire -> JsBool(wire.booleanValue)
    [] "integerValue" \in DOMAIN wire -> JsNum(wire.integerValue)
    [] "stringValue" \in DOMAIN wire -> JsStr(wire.stringValue)
    [] "arrayValue" \in DOMAIN wire ->
         JsArr([i \in 1..Len(wire.arrayValue.values) |-> decode(wire.arrayValue.values[i])])
    [] "mapValue" \in DOMAIN wire ->
         JsObj([i \in 1..Len(wire.mapValue.fields) |->
                  [key |-> wire.mapValue.fields[i].key,
                   val |-> decode(wire.mapValue.fields[i].val)]])

\* fields.ts, extract_fields_from_document: {id, fields, createTime, updateTime},
\* the id being the last path segment of the document's name
extract_fields_from_document(data) ==
  LET segments == Split(data.name, "/")
  IN  [id |-> segments[Len(segments)],
       fields |-> [i \in 1..Len(data.fields) |->
                     [key |-> data.fields[i].key, val |-> decode(data.fields[i].val)]],
       createTime |-> data.createTime,
       updateTime |-> data.updateTime]

\* What the network did with a request: fetch rejected ("network"), the body
\* was not JSON so that response.json() rejected ("not json"), or the body
\* parsed to the object `body`.
FETCH_FAILED == "fetch failed"
NOT_JSON == "Unexpected token in JSON"

\* the tail get and update share: await response.json(), then
\* `if ('error' in data) throw new Error(data.error.message)`, then decode
readResponse(response) ==
  CASE response.kind = "network" -> Err(FETCH_FAILED)
    [] response.kind = "not json" -> Err(NOT_JSON)
    [] response.kind = "json" ->
         IF "error" \in DOMAIN response.body THEN Err(response.body.error.message)
         ELSE Ok(extract_fields_from_document(response.body))

\* get returning whatever it can decode, the error envelope unread
get_ignoresEnvelope(firestore, paths, response) ==
  LET endpoint == get_firestore_endpoint(firestore.project_id, paths)
  IN  Did(CASE response.kind = "network" -> Err(FETCH_FAILED)
            [] response.kind = "not json" -> Err(NOT_JSON)
            [] response.kind = "json" ->
                 IF "name" \in DOMAIN response.body
                 THEN Ok(extract_fields_from_document(response.body))
                 ELSE Err(response.body.error.message),
          <<[op |-> "fetch", method |-> "GET", endpoint |-> endpoint,
             headers |-> [Authorization |-> <<"Bearer", firestore.jwt>>]]>>)

\* get(firestore, ...paths), the network answering with response
get(firestore, paths, response) ==
  LET endpoint == get_firestore_endpoint(firestore.project_id, paths)
  IN  Did(readResponse(response),
          <<[op |-> "fetch", method |-> "GET", endpoint |-> endpoint,
             headers |-> [Authorization |-> <<"Bearer", firestore.jwt>>]]>>)

\* for (const key in fields) endpoint.searchParams.append('updateMask.fieldPaths', key)
appendFieldPaths(searchParams, fields) ==
  searchParams \o [i \in 1..Len(fields.e) |-> <<"updateMask.fieldPaths", fields.e[i].key>>]

\* update(firestore, ...args), the network answering with response
update(firestore, args, response) ==
  LET paths == SubSeq(args, 1, Len(args) - 1)
      fields == args[Len(args)]
      payload == create_document_from_fields(fields)
      endpoint == get_firestore_endpoint(firestore.project_id, paths)
      searchParams == appendFieldPaths(
                        Append(endpoint.searchParams, <<"currentDocument.exists", "true">>),
                        fields)
  IN  Did(readResponse(response),
          <<[op |-> "fetch", method |-> "PATCH",
             endpoint |-> [endpoint EXCEPT !.searchParams = searchParams],
             body |-> payload,
             headers |-> [Authorization |-> <<"Bearer", firestore.jwt>>]]>>)

\* ------------------------------------------------------------------ inputs

SeqsUpTo(S, n) == UNION {[1..k -> S] : k \in 0..n}

\* service-account credentials handed to initialize()
Credentials == {[project_id |-> <<"p">>, uid |-> "u1"], [project_id |-> <<"q">>, uid |-> "u2"]}

\* a handle the caller minted itself and hands to the helper's constructor
DB_H == [project_id |-> <<"h">>, jwt |-> <<"jwt", "u0">>]

DbArgs == {NULL, DB_H}

\* the handles the provider can hold
ProviderDBs == {NULL} \cup {r.val : r \in {o \in UNION {init(c) : c \in Credentials} : o.ok}}

\* 'a', '/a/b//b', ['b', 'a', 'a'], ['a', 'b'], ''
CollectionPaths ==
  {JsStr(<<"a">>), JsStr(<<"/", "a", "/", "b", "/", "/", "b">>),
   JsArr(<<<<"b">>, <<"a">>, <<"a">>>>), JsArr(<<<<"a">>, <<"b">>>>), JsStr(<<>>)}

\* the helpers the constructor builds from those
Helpers ==
  {r.val : r \in {o \in {constructor(c, a) : c \in CollectionPaths, a \in DbArgs} : o.ok}}

Char == {"a", "b", "/"}

\* every string of at most MaxIdLen characters: '', 'a', 'a/b', '/a', '//', ..
DocIds == SeqsUpTo(Char, MaxIdLen)

\* 'a', 'b', 'a/b', '/b/a' in turn
IdAt(i) ==
  CASE i % 4 = 1 -> <<"a">>
    [] i % 4 = 2 -> <<"b">>
    [] i % 4 = 3 -> <<"a", "/", "b">>
    [] i % 4 = 0 -> <<"/", "b", "/", "a">>

\* id lists of every length up to MaxIds, and the short ones over '', 'a', 'b/a'
IdLists ==
  {[i \in 1..n |-> IdAt(i)] : n \in 0..MaxIds}
    \cup SeqsUpTo({<<>>, <<"a">>, <<"b", "/", "a">>}, 2)

\* filter operands: a non-string, strings (empty, bare, path-like), arrays
\* (empty, of ids, with an empty or non-string entry, nested), an object
LeafValues ==
  {JsUndefined, JsNull, JsNum(1), JsStr(<<>>), JsStr(<<"a">>), JsStr(<<"a", "/", "b">>),
   JsStr(<<"/", "/", "b", "/", "a">>),
   JsArr(<<JsStr(<<"a">>), JsStr(<<>>)>>), JsArr(<<JsStr(<<"b">>), JsUndefined>>),
   JsArr(<<JsArr(<<JsStr(<<"a">>)>>), JsStr(<<"b">>)>>),
   JsObj(<<[key |-> "k", val |-> JsUndefined]>>)}
    \cup {JsArr([i \in 1..n |-> JsStr(IdAt(i))]) : n \in 0..MaxIds}

FieldNames == {DOCUMENT_ID_FIELD, <<"f">>}

FilterTypes == {DataFilterType[k] : k \in DOMAIN DataFilterType}

WrapperTypes == {DataFilterWrapperType.or, DataFilterWrapperType.and}

Leaves == {DataFilter(n, v, t) : n \in FieldNames, v \in LeafValues, t \in FilterTypes}

\* the leaves filter trees are grown from: a data field, a document id, and
\* a document id the compiler rejects
TreeLeaves ==
  {DataFilter(<<"f">>, JsStr(<<"a">>), DataFilterType.isLessThan),
   DataFilter(DOCUMENT_ID_FIELD, JsStr(<<"b">>), DataFilterType.isEqualTo),
   DataFilter(DOCUMENT_ID_FIELD, JsStr(<<>>), DataFilterType.isEqualTo)}

RECURSIVE Trees(_)
RECURSIVE Forests(_)
\* the filter trees of exactly n nodes
Trees(n) ==
  (IF n = 1 THEN TreeLeaves ELSE {})
    \cup {DataFilterWrapper(w, f) : w \in WrapperTypes, f \in Forests(n - 1)}

\* the filter lists of exactly n nodes in all
Forests(n) ==
  IF n = 0 THEN {<<>>}
  ELSE UNION {{<<t>> \o f : t \in Trees(k), f \in Forests(n - k)} : k \in 1..n}

FilterLists == UNION {Forests(n) : n \in 0..MaxNodes}

Limits == {EmptyRec} \cup {[limit |-> n] : n \in (0 - 1)..MaxLimit}

SortFields == {<<"f">>, <<"g", ".", "h">>}

Sorts ==
  {EmptyRec} \cup {[sortBy |-> [field |-> f, ascending |-> a]] : f \in SortFields, a \in BOOLEAN}

\* getData arguments: every filter list alone, every single leaf alone, and
\* every limit and sort with no filter, one leaf, or a small group
QueryParams ==
  {[filters |-> f] : f \in FilterLists \cup {<<l>> : l \in Leaves}}
    \cup {f @@ l @@ s : f \in {EmptyRec} \cup {[filters |-> g] : g \in Forests(0) \cup Forests(1)},
                        l \in Limits, s \in Sorts}

\* getData arguments of the whole-system specification
SmallParams ==
  {f @@ l @@ s :
     f \in {EmptyRec} \cup {[filters |-> g] : g \in Forests(1) \cup Forests(2)},
     l \in {EmptyRec, [limit |-> 1]},
     s \in {EmptyRec, [sortBy |-> [field |-> <<"f">>, ascending |-> FALSE]]}}

\* payloads of addData / updateField
Payloads ==
  {JsObj(<<>>),
   JsObj(<<[key |-> "title", val |-> JsStr(<<"a">>)],
           [key |-> "optional", val |-> JsUndefined],
           [key |-> "list", val |-> JsArr(<<JsStr(<<"a">>), JsUndefined>>)]>>)}

SmallDocIds == {<<>>, <<"a">>, <<"a", "/", "b">>}

\* no id, one id, an empty id, and lists at and just over the ceiling
SmallIdLists ==
  {<<>>, <<<<"a">>>>, <<<<"a">>, <<>>>>}
    \cup {[i \in 1..n |-> IdAt(i)] : n \in {MAX_IN_FILTER_VALUES, MAX_IN_FILTER_VALUES + 1}}

\* payloads of the write operations: undefined at the top level, nested in
\* maps and inside arrays, next to every other kind of leaf
WritePayloads ==
  Payloads \cup
  {JsObj(<<[key |-> "nested", val |-> JsObj(<<[key |-> "name", val |-> JsUndefined]>>)],
           [key |-> "n", val |-> JsNull],
           [key |-> "b", val |-> JsBool(TRUE)],
           [key |-> "k", val |-> JsNum(1)]>>),
   JsObj(<<[key |-> "deep",
            val |-> JsArr(<<JsArr(<<JsUndefined>>),
                            JsObj(<<[key |-> "m", val |-> JsArr(<<JsUndefined>>)]>>)>>)]>>),
   JsObj(<<[key |-> "when", val |-> JsDate(0)]>>),
   JsObj(<<[key |-> "blob", val |-> JsBytes(<<1, 2>>)]>>),
   JsObj(<<[key |-> "list", val |-> JsArr(<<JsDate(1), JsUndefined>>)]>>)}

\* document paths handed to get / update: 'a', 'b' / 'a', 'b', 'a', 'b' / 'a/b'
DocumentPaths ==
  {<<<<"a">>, <<"b">>>>, <<<<"a">>, <<"b">>, <<"a">>, <<"b">>>>, <<<<"a", "/", "b">>>>}

FieldKeys == {"title", "done", "a.b"}

\* the value update is handed under each key
FieldValue(key) ==
  CASE key = "title" -> JsStr(<<"a">>)
    [] key = "done" -> JsBool(TRUE)
    [] key = "a.b" -> JsNull

\* the fields handed to update: none, or up to MaxFields distinct keys in any order
UpdateFields ==
  {JsObj([i \in 1..Len(keys) |-> [key |-> keys[i], val |-> FieldValue(keys[i])]]) :
     keys \in {k \in SeqsUpTo(FieldKeys, MaxFields) :
                 \A i, j \in 1..Len(k) : i # j => k[i] # k[j]}}

\* the Google API error envelope: {error: {code, message, status}}
ErrorEnvelopes ==
  {[code |-> 404, message |-> "Document not found.", status |-> "NOT_FOUND"],
   [code |-> 403, message |-> "Missing or insufficient permissions.",
    status |-> "PERMISSION_DENIED"],
   [code |-> 400, message |-> "", status |-> "INVALID_ARGUMENT"]}

\* documents as the REST API returns them
WireDocuments ==
  {[name |-> PROJECTS \o <<"p">> \o DATABASES_DOCUMENTS \o <<"a", "/", "b">>,
    fields |-> f, createTime |-> "t1", updateTime |-> "t2"] :
     f \in {<<>>,
            <<[key |-> "title", val |-> [stringValue |-> <<"a">>]],
              [key |-> "tags", val |-> [arrayValue |-> [values |->
                                          <<[nullValue |-> "NULL_VALUE"],
                                            [integerValue |-> 1]>>]]]>>,
            <<[key |-> "m", val |-> [mapValue |-> [fields |->
                                       <<[key |-> "done",
                                          val |-> [booleanValue |-> TRUE]]>>]]]>>}}

\* what the network can answer: no answer, a body that is not JSON, an error
\* envelope, a document, and an error envelope next to a document's keys
Responses ==
  {[kind |-> "network"], [kind |-> "not json"]}
    \cup {[kind |-> "json", body |-> [error |-> e]] : e \in ErrorEnvelopes}
    \cup {[kind |-> "json", body |-> d] : d \in WireDocuments}
    \cup {[kind |-> "json", body |-> d @@ [error |-> e]] : d \in WireDocuments, e \in ErrorEnvelopes}

\* the leaves of a native value: undefined and one of each kind the codec takes
NativeLeaves ==
  {JsUndefined, JsNull, JsBool(TRUE), JsNum(1), JsStr(<<"a">>), JsDate(0), JsBytes(<<1, 2>>)}

\* the key of the i-th entry of a map
KeyAt(i) == <<"k1", "k2", "k3", "k4", "k5", "k6">>[i]

RECURSIVE NativeValues(_)
RECURSIVE NativeLists(_)
\* the native values of exactly n nodes: a leaf, or an array or a map over
\* values of n - 1 nodes in all
NativeValues(n) ==
  (IF n = 1 THEN NativeLeaves ELSE {})
    \cup {JsArr(l) : l \in NativeLists(n - 1)}
    \cup {JsObj([i \in 1..Len(l) |-> [key |-> KeyAt(i), val |-> l[i]]]) : l \in NativeLists(n - 1)}

\* the lists of native values of exactly n nodes in all
NativeLists(n) ==
  IF n = 0 THEN {<<>>}
  ELSE UNION {{<<v>> \o l : v \in NativeValues(k), l \in NativeLists(n - k)} : k \in 1..n}

\* every value handed to the sanitiser
SanitiserInputs == UNION {NativeValues(n) : n \in 1..MaxValueNodes}

PathChar == {"a", "/"}

\* segments a caller may list: '', 'a', 'b', and one holding a slash
PathSegments == {<<>>, <<"a">>, <<"b">>, <<"a", "/", "b">>}

\* collection paths handed to the constructor: every string of at most
\* MaxPathLen characters over {a, /} and every list of at most MaxSegments segments
PathInputs ==
  {JsStr(p) : p \in SeqsUpTo(PathChar, MaxPathLen)}
    \cup {JsArr(l) : l \in SeqsUpTo(PathSegments, MaxSegments)}

\* ----------------------------------------------------------------- actions

Idle == [op |-> "idle"]
NoOutcome == [none |-> TRUE]

Record(call, did) ==
  /\ last' = call
  /\ outcome' = did.out
  /\ calls' = did.calls

\* History kept for the properties, not program state: the first k suspended
\* calls are marked as superseded -- a reset() has returned, or a call
\* started later has completed with a handle, since they started.
Supersede(s, k) == [i \in 1..Len(s) |-> IF i <= k THEN [s[i] EXCEPT !.superseded = TRUE] ELSE s[i]]

\* initialize(params) runs up to `await init(params)`
InitializeCall(params) ==
  /\ last = Idle
  /\ Len(inflight) < MaxInflight
  /\ inflight' = Append(inflight, [params |-> params, superseded |-> FALSE])
  /\ UNCHANGED <<db, helper, last, outcome, calls>>

RemoveAt(s, i) == SubSeq(s, 1, i - 1) \o SubSeq(s, i + 1, Len(s))

\* init resolved for the i-th suspended call: this.db = <the handle>; return this.db
InitializeResolve(i) ==
  /\ last = Idle
  /\ i \in 1..Len(inflight)
  /\ \E r \in init(inflight[i].params) :
       /\ r.ok
       /\ db' = initialize(db, r)
       /\ Record([op |-> "initialize", params |-> inflight[i].params,
                  superseded |-> inflight[i].superseded],
                 Did(Ok(initialize(db, r)), <<>>))
  /\ inflight' = RemoveAt(Supersede(inflight, i - 1), i)
  /\ UNCHANGED helper

\* init rejected for the i-th suspended call: the assignment never runs and
\* the caller's promise rejects with init's error
InitializeReject(i) ==
  /\ last = Idle
  /\ i \in 1..Len(inflight)
  /\ \E r \in init(inflight[i].params) :
       /\ ~r.ok
       /\ db' = initialize(db, r)
       /\ Record([op |-> "initialize", params |-> inflight[i].params,
                  superseded |-> inflight[i].superseded],
                 Did(r, <<>>))
  /\ inflight' = RemoveAt(inflight, i)
  /\ UNCHANGED helper

Reset ==
  /\ last = Idle
  /\ db' = reset(db)
  /\ inflight' = Supersede(inflight, Len(inflight))
  /\ UNCHANGED <<helper, last, outcome, calls>>

ProviderGetDB ==
  /\ last = Idle
  /\ Record([op |-> "DBProvider.getDB"], Did(DBProvider_getDB(db), <<>>))
  /\ UNCHANGED <<db, inflight, helper>>

ProviderIsInitialized ==
  /\ last = Idle
  /\ Record([op |-> "DBProvider.isInitialized"], Did(Ok([boolean |-> isInitialized(db)]), <<>>))
  /\ UNCHANGED <<db, inflight, helper>>

Construct(collectionPath, dbArg) ==
  /\ last = Idle
  /\ LET built == constructor(collectionPath, dbArg)
     IN  /\ helper' = IF built.ok THEN built.val ELSE helper
         /\ Record([op |-> "constructor", collectionPath |-> collectionPath, db |-> dbArg],
                   Did(IF built.ok THEN Ok([constructed |-> TRUE]) ELSE built, <<>>))
  /\ UNCHANGED <<db, inflight>>

AddData(data, docId, merge) ==
  /\ last = Idle /\ helper # NoHelper
  /\ Record([op |-> "addData", data |-> data, docId |-> docId, merge |-> merge],
            addData(helper, db, data, docId, merge))
  /\ UNCHANGED <<db, inflight, helper>>

GetData(params) ==
  /\ last = Idle /\ helper # NoHelper
  /\ Record([op |-> "getData", params |-> params], getData(helper, db, params))
  /\ UNCHANGED <<db, inflight, helper>>

GetSingleDocument(docId) ==
  /\ last = Idle /\ helper # NoHelper
  /\ Record([op |-> "getSingleDocument", docId |-> docId], getSingleDocument(helper, db, docId))
  /\ UNCHANGED <<db, inflight, helper>>

UpdateField(docId, updateFields) ==
  /\ last = Idle /\ helper # NoHelper
  /\ Record([op |-> "updateField", docId |-> docId, updateFields |-> updateFields],
            updateField(helper, db, docId, updateFields))
  /\ UNCHANGED <<db, inflight, helper>>

DeleteDocument(docId) ==
  /\ last = Idle /\ helper # NoHelper
  /\ Record([op |-> "deleteDocument", docId |-> docId], deleteDocument(helper, db, docId))
  /\ UNCHANGED <<db, inflight, helper>>

GetDocsByIds(ids) ==
  /\ last = Idle /\ helper # NoHelper
  /\ Record([op |-> "getDocsByIds", ids |-> ids], getDocsByIds(helper, db, ids))
  /\ UNCHANGED <<db, inflight, helper>>

Get(firestore, paths, response) ==
  /\ last = Idle
  /\ Record([op |-> "get", firestore |-> firestore, paths |-> paths, response |-> response],
            get(firestore, paths, response))
  /\ UNCHANGED <<db, inflight, helper>>

Update(firestore, args, response) ==
  /\ last = Idle
  /\ Record([op |-> "update", firestore |-> firestore, args |-> args, response |-> response],
            update(firestore, args, response))
  /\ UNCHANGED <<db, inflight, helper>>

\* this.replaceUndefinedWithNull(value), as every write applies it
ReplaceUndefinedWithNull(value) ==
  /\ last = Idle
  /\ Record([op |-> "replaceUndefinedWithNull", value |-> value],
            Did(Ok([sanitized |-> replaceUndefinedWithNull(value)]), <<>>))
  /\ UNCHANGED <<db, inflight, helper>>

\* the caller has seen the outcome and is free to make its next call
Return ==
  /\ last # Idle
  /\ last' = Idle /\ outcome' = NoOutcome /\ calls' = <<>>
  /\ UNCHANGED <<db, inflight, helper>>

\* ---------------------------------------------------------- specifications

\* The whole system from a fresh process: the provider, one helper, every call.
Init ==
  /\ db = NULL
  /\ inflight = <<>>
  /\ helper = NoHelper
  /\ last = Idle /\ outcome = NoOutcome /\ calls = <<>>

Next ==
  \/ \E c \in Credentials : InitializeCall(c)
  \/ \E i \in 1..MaxInflight : InitializeResolve(i)
  \/ \E i \in 1..MaxInflight : InitializeReject(i)
  \/ Reset
  \/ ProviderGetDB
  \/ ProviderIsInitialized
  \/ last = Idle /\ \E c \in CollectionPaths, a \in DbArgs : Construct(c, a)
  \/ last = Idle /\ \E data \in Payloads, docId \in SmallDocIds,
                       merge \in {"true", "false", "omitted"} : AddData(data, docId, merge)
  \/ last = Idle /\ \E params \in SmallParams : GetData(params)
  \/ last = Idle /\ \E docId \in SmallDocIds : GetSingleDocument(docId)
  \/ last = Idle /\ \E docId \in SmallDocIds, fields \in Payloads : UpdateField(docId, fields)
  \/ last = Idle /\ \E docId \in SmallDocIds : DeleteDocument(docId)
  \/ last = Idle /\ \E ids \in SmallIdLists : GetDocsByIds(ids)
  \/ Return

Spec == Init /\ [][Next]_vars

\* The query compiler on its own: any helper over any provider state, and
\* the read operations over the full input sets.
InitQuery ==
  /\ db \in ProviderDBs
  /\ inflight = <<>>
  /\ helper \in Helpers
  /\ last = Idle /\ outcome = NoOutcome /\ calls = <<>>

NextQuery ==
  \/ last = Idle /\ \E params \in QueryParams : GetData(params)
  \/ last = Idle /\ \E docId \in DocIds : GetSingleDocument(docId)
  \/ last = Idle /\ \E ids \in IdLists : GetDocsByIds(ids)
  \/ Return

SpecQuery == InitQuery /\ [][NextQuery]_vars

\* The constructor over every path shape, and every operation on the helper
\* it built: what the bound path is, and whether anything changes it.
InitPath ==
  /\ db \in ProviderDBs
  /\ inflight = <<>>
  /\ helper = NoHelper
  /\ last = Idle /\ outcome = NoOutcome /\ calls = <<>>

NextPath ==
  \/ last = Idle /\ \E c \in PathInputs, a \in DbArgs : Construct(c, a)
  \/ last = Idle /\ \E docId \in SmallDocIds : AddData(JsObj(<<>>), docId, "omitted")
  \/ last = Idle /\ GetData(EmptyRec)
  \/ last = Idle /\ \E docId \in SmallDocIds : GetSingleDocument(docId)
  \/ last = Idle /\ \E docId \in SmallDocIds : UpdateField(docId, JsObj(<<>>))
  \/ last = Idle /\ \E docId \in SmallDocIds : DeleteDocument(docId)
  \/ last = Idle /\ GetDocsByIds(<<<<"a">>>>)
  \/ Return

SpecPath == InitPath /\ [][NextPath]_vars

\* The write operations on their own: any helper over any provider state,
\* every document id and every kind of payload.
InitWrite ==
  /\ db \in ProviderDBs
  /\ inflight = <<>>
  /\ helper \in Helpers
  /\ last = Idle /\ outcome = NoOutcome /\ calls = <<>>

NextWrite ==
  \/ last = Idle /\ \E data \in WritePayloads, docId \in DocIds,
                       merge \in {"true", "false", "omitted"} : AddData(data, docId, merge)
  \/ last = Idle /\ \E docId \in DocIds, fields \in WritePayloads : UpdateField(docId, fields)
  \/ last = Idle /\ \E docId \in DocIds : DeleteDocument(docId)
  \/ Return

SpecWrite == InitWrite /\ [][NextWrite]_vars

\* The transport functions get and update on their own: any handle, any
\* document path, any fields, and whatever the network answers.
InitTransport ==
  /\ db = NULL
  /\ inflight = <<>>
  /\ helper = NoHelper
  /\ last = Idle /\ outcome = NoOutcome /\ calls = <<>>

NextTransport ==
  \/ last = Idle /\ \E firestore \in ProviderDBs \ {NULL}, paths \in DocumentPaths,
                       response \in Responses : Get(firestore, paths, response)
  \/ last = Idle /\ \E firestore \in ProviderDBs \ {NULL}, paths \in DocumentPaths,
                       fields \in UpdateFields, response \in Responses :
                         Update(firestore, Append(paths, fields), response)
  \/ Return

SpecTransport == InitTransport /\ [][NextTransport]_vars

\* The sanitiser on its own, over every native value.
InitSanitiser ==
  /\ db = NULL
  /\ inflight = <<>>
  /\ helper = NoHelper
  /\ last = Idle /\ outcome = NoOutcome /\ calls = <<>>

NextSanitiser ==
  \/ last = Idle /\ \E value \in SanitiserInputs : ReplaceUndefinedWithNull(value)
  \/ Return

SpecSanitiser == InitSanitiser /\ [][NextSanitiser]_vars

\* --------------------------------------------------------------- properties

HelperOps ==
  {"addData", "getData", "getSingleDocument", "getDocsByIds", "updateField", "deleteDocument"}

\* C1: in every reachable state DBProvider.getDB() either returns a non-null
\* handle or throws the 'has not been initialized' error, it returns exactly
\* when isInitialized() is true, and a getDB() call the caller made observed
\* just that.
C1_NotInitializedIsObservable ==
  LET r == DBProvider_getDB(db)
  IN  /\ \/ r.ok /\ r.val # NULL /\ r.val \in ProviderDBs
         \/ ~r.ok /\ r.err = NOT_INITIALIZED
      /\ r.ok <=> isInitialized(db)
      /\ last.op = "DBProvider.getDB" => outcome = r
      /\ last.op = "DBProvider.isInitialized" => outcome.val.boolean = r.ok

\* C1 witness: getDB() threw while an initialize() was still in flight
C1_Witness ==
  /\ last.op = "DBProvider.getDB"
  /\ ~outcome.ok /\ outcome.err = NOT_INITIALIZED
  /\ Len(inflight) > 0

\* the handle a helper operation is to use: the constructor's, else the provider's
SessionHandle == IF helper.db # NULL THEN helper.db ELSE db

\* C2: every transport call of a helper operation carries the constructor's
\* db when one was given and otherwise the provider's handle, never null;
\* with no db given and the provider uninitialized there is no transport call
\* and the operation that needed one fails with the provider's error.
C2_TransportGetsSessionHandle ==
  last.op \in HelperOps =>
    /\ \A i \in 1..Len(calls) : calls[i].db # NULL /\ calls[i].db = SessionHandle
    /\ SessionHandle = NULL =>
         /\ calls = <<>>
         /\ outcome.ok \/ outcome.err \in {NOT_INITIALIZED, DOCUMENT_ID_MESSAGE,
                                           DOCUMENT_ID_VALUE_MESSAGE, MAX_IDS_MESSAGE}

\* the filters handed to the getData call the caller made last
LastFilters == IF "filters" \in DOMAIN last.params THEN last.params.filters ELSE <<>>

\* the structured query of the one query call made
IssuedQuery == calls[1].structuredQuery

RECURSIVE HasLeaf(_)
\* a node is effective when a leaf lies somewhere under it
HasLeaf(node) ==
  IF "filters" \in DOMAIN node
  THEN \E i \in 1..Len(node.filters) : HasLeaf(node.filters[i])
  ELSE TRUE

EffectiveChildren(children) == SelectSeq(children, HasLeaf)

RECURSIVE GroupsIn(_)
\* every group at or under a node
GroupsIn(node) ==
  IF "filters" \in DOMAIN node
  THEN {node} \cup UNION {GroupsIn(node.filters[i]) : i \in 1..Len(node.filters)}
  ELSE {}

\* every group of a top-level filter list, the list itself (an AND group) included
GroupsOf(filters) ==
  {DataFilterWrapper(DataFilterWrapperType.and, filters)}
    \cup UNION {GroupsIn(filters[i]) : i \in 1..Len(filters)}

RECURSIVE NoDegenerateComposite(_)
\* no composite filter with fewer than two children, at any depth
NoDegenerateComposite(filter) ==
  IF "compositeFilter" \in DOMAIN filter
  THEN /\ Len(filter.compositeFilter.filters) >= 2
       /\ \A i \in 1..Len(filter.compositeFilter.filters) :
            NoDegenerateComposite(filter.compositeFilter.filters[i])
  ELSE TRUE

\* C3: a group with no effective child compiles to nothing, a group with
\* exactly one compiles to that child's filter, at every depth; the query has
\* a where clause exactly when the filter list has an effective child, and
\* no composite filter in it has fewer than two children.
C3_DegenerateGroupsElided ==
  last.op = "getData" =>
    /\ \A g \in GroupsOf(LastFilters) :
         LET eff == EffectiveChildren(g.filters)
             compiled == buildFilter(helper, db, g)
         IN  /\ Len(eff) = 0 => compiled = Ok(Undefined)
             /\ Len(eff) = 1 => compiled = buildFilter(helper, db, eff[1])
             /\ compiled.ok /\ compiled.val # Undefined => NoDegenerateComposite(compiled.val)
    /\ calls # <<>> =>
         /\ "where" \in DOMAIN IssuedQuery <=> EffectiveChildren(LastFilters) # <<>>
         /\ "where" \in DOMAIN IssuedQuery => NoDegenerateComposite(IssuedQuery.where)

\* C3 witness: a query was issued for [or([and([]), leaf])]: an empty group
\* nested in a group whose one effective child became the whole where clause
C3_Witness ==
  /\ last.op = "getData" /\ calls # <<>>
  /\ Len(LastFilters) = 1
  /\ "filters" \in DOMAIN LastFilters[1] /\ Len(LastFilters[1].filters) = 2
  /\ "filters" \in DOMAIN LastFilters[1].filters[1]
  /\ ~HasLeaf(LastFilters[1].filters[1])
  /\ "filters" \notin DOMAIN LastFilters[1].filters[2]
  /\ "fieldFilter" \in DOMAIN IssuedQuery.where

\* the wire tag of a combinator
CombinatorTag(wrapperType) ==
  CASE wrapperType = DataFilterWrapperType.and -> "AND"
    [] wrapperType = DataFilterWrapperType.or -> "OR"

\* C4: a group with two or more effective children compiles to a composite
\* filter tagged AND / OR by its combinator whose filters are the compiled
\* effective children in their original order; the top-level list is an AND.
C4_CompositeTagAndOrder ==
  last.op = "getData" =>
    /\ \A g \in GroupsOf(LastFilters) :
         LET eff == EffectiveChildren(g.filters)
             compiled == buildFilter(helper, db, g)
         IN  Len(eff) >= 2 /\ compiled.ok =>
               compiled.val =
                 [compositeFilter |->
                    [op |-> CombinatorTag(g.filterWrapperType),
                     filters |-> [i \in 1..Len(eff) |-> buildFilter(helper, db, eff[i]).val]]]
    /\ calls # <<>> /\ Len(EffectiveChildren(LastFilters)) >= 2 =>
         /\ IssuedQuery.where.compositeFilter.op = "AND"
         /\ Len(IssuedQuery.where.compositeFilter.filters) = Len(EffectiveChildren(LastFilters))
         /\ IssuedQuery.where = buildFilter(helper, db,
                                  DataFilterWrapper(DataFilterWrapperType.and, LastFilters)).val

\* C4 witness: a query was issued for [leaf, or([leaf, leaf])]: the top-level
\* AND holds the leaf first and the OR composite of two second
C4_Witness ==
  /\ last.op = "getData" /\ calls # <<>>
  /\ Len(LastFilters) = 2
  /\ "filters" \notin DOMAIN LastFilters[1]
  /\ "filters" \in DOMAIN LastFilters[2]
  /\ LastFilters[2].filterWrapperType = DataFilterWrapperType.or
  /\ Len(LastFilters[2].filters) = 2
  /\ "compositeFilter" \in DOMAIN IssuedQuery.where
  /\ IssuedQuery.where.compositeFilter.op = "AND"
  /\ Len(IssuedQuery.where.compositeFilter.filters) = 2
  /\ "compositeFilter" \in DOMAIN IssuedQuery.where.compositeFilter.filters[2]
  /\ "fieldFilter" \in DOMAIN IssuedQuery.where.compositeFilter.filters[1]
  /\ IssuedQuery.where.compositeFilter.filters[2].compositeFilter.op = "OR"
  /\ Len(IssuedQuery.where.compositeFilter.filters[2].compositeFilter.filters) = 2

\* the operand without its leading slashes
WithoutLeadingSlashes(s) ==
  LET k == CHOOSE n \in 0..Len(s) :
             /\ \A i \in 1..n : s[i] = "/"
             /\ n < Len(s) => s[n + 1] # "/"
  IN  SubSeq(s, k + 1, Len(s))

\* the reference of an id or path operand, for project P and collection path C
ExpectedReference(P, C, operand) ==
  PROJECTS \o P \o DATABASES_DOCUMENTS
    \o (IF \E i \in 1..Len(operand) : operand[i] = "/"
        THEN WithoutLeadingSlashes(operand)
        ELSE Join(C, "/") \o <<"/">> \o operand)

\* C5: the reference getSingleDocument sends for a bare id is
\* projects/P/databases/(default)/documents/<all segments of C>/<id>, and for
\* an operand with a '/' it is that prefix and the operand with its leading
\* slashes stripped, whatever C is; the resolver does so for every string.
C5_ReferenceResolution ==
  /\ last.op = "getSingleDocument" /\ calls # <<>> =>
       IssuedQuery.where.fieldFilter.value =
         [referenceValue |->
            ExpectedReference(SessionHandle.project_id, helper.collectionSegments, last.docId)]
  /\ last = Idle /\ helper # NoHelper /\ SessionHandle # NULL =>
       \A s \in DocIds :
         buildDocumentReferencePath(helper, db, s) =
           Ok(ExpectedReference(SessionHandle.project_id, helper.collectionSegments, s))

\* C5 witness: a bare id resolved in a nested collection, and the query went out
C5_Witness ==
  /\ last.op = "getSingleDocument" /\ calls # <<>>
  /\ Len(helper.collectionSegments) = 3
  /\ last.docId = <<"b">>

\* the IN operand getDocsByIds is to send for ids: one reference per id, in order
ReferenceArray(ids) ==
  [arrayValue |->
     [values |-> [i \in 1..Len(ids) |->
        [referenceValue |->
           ExpectedReference(SessionHandle.project_id, helper.collectionSegments, ids[i])]]]]

\* the one query getDocsByIds is to issue for ids
IssuedIdsQuery(ids) ==
  /\ Len(calls) = 1 /\ calls[1].op = "query"
  /\ IssuedQuery.where =
       [fieldFilter |-> [field |-> [fieldPath |-> DOCUMENT_ID_FIELD],
                         op |-> "IN",
                         value |-> ReferenceArray(ids)]]

\* C6 as claimed: more than 10 ids fail with the 'maximum of 10' error and no
\* query; 1 to 10 ids succeed with exactly one query whose where clause is
\* the bare IN filter on __name__ over one reference per id, in order.
C6_CeilingAsClaimed ==
  last.op = "getDocsByIds" =>
    /\ Len(last.ids) > 10 =>
         ~outcome.ok /\ outcome.err = MAX_IDS_MESSAGE /\ calls = <<>>
    /\ Len(last.ids) \in 1..10 => outcome.ok /\ IssuedIdsQuery(last.ids)

\* every id is a non-empty string and a session handle is at hand
IdsResolvable(ids) == SessionHandle # NULL /\ \A i \in 1..Len(ids) : ids[i] # <<>>

\* C6, amended: more than 10 ids fail with the 'maximum of 10' error and no
\* query; 1 to 10 ids, each non-empty and with a session handle available,
\* succeed with exactly that one query; 1 to 10 ids with an empty id or with
\* no handle available fail and issue no query.
C6_MembershipCeiling ==
  last.op = "getDocsByIds" =>
    /\ Len(last.ids) > 10 =>
         ~outcome.ok /\ outcome.err = MAX_IDS_MESSAGE /\ calls = <<>>
    /\ Len(last.ids) \in 1..10 /\ IdsResolvable(last.ids) =>
         outcome.ok /\ IssuedIdsQuery(last.ids)
    /\ Len(last.ids) \in 1..10 /\ ~IdsResolvable(last.ids) =>
         /\ ~outcome.ok /\ calls = <<>>
         /\ outcome.err \in {DOCUMENT_ID_VALUE_MESSAGE, NOT_INITIALIZED}

\* C6 witness: exactly 10 ids went out in one query
C6_Witness ==
  /\ last.op = "getDocsByIds" /\ Len(last.ids) = 10
  /\ outcome.ok /\ Len(calls) = 1
  /\ Len(IssuedQuery.where.fieldFilter.value.arrayValue.values) = 10

RECURSIVE LeavesIn(_)
\* every leaf at or under a node
LeavesIn(node) ==
  IF "filters" \in DOMAIN node
  THEN UNION {LeavesIn(node.filters[i]) : i \in 1..Len(node.filters)}
  ELSE {node}

LeavesOf(filters) == UNION {LeavesIn(filters[i]) : i \in 1..Len(filters)}

\* an 'in' style document-identity leaf with more than 10 operands
OverCeiling(leaf) ==
  /\ leaf.fieldName = DOCUMENT_ID_FIELD
  /\ leaf.filterType \in {DataFilterType.whereIn, DataFilterType.whereNotIn}
  /\ leaf.value.t = "array" /\ Len(leaf.value.a) > 10

\* C7: getData rejects a filter list holding, at any depth, a whereIn or
\* whereNotIn leaf on __name__ with more than 10 operands, and issues no query.
C7_InFilterCeiling ==
  last.op = "getData" /\ (\E leaf \in LeavesOf(LastFilters) : OverCeiling(leaf)) =>
    ~outcome.ok /\ calls = <<>>

\* the getData call made last handed over exactly one leaf
SingleLeaf ==
  /\ last.op = "getData"
  /\ Len(LastFilters) = 1
  /\ "fieldName" \in DOMAIN LastFilters[1]

\* the compiled operand of that leaf in the query issued
CompiledOperand == IssuedQuery.where.fieldFilter.value

IsReference(wire) == DOMAIN wire = {"referenceValue"}

IsArrayOfReferences(wire) ==
  /\ DOMAIN wire = {"arrayValue"}
  /\ \A i \in 1..Len(wire.arrayValue.values) : IsReference(wire.arrayValue.values[i])

RECURSIVE NoReference(_)
\* no reference variant anywhere in a wire value
NoReference(wire) ==
  /\ "referenceValue" \notin DOMAIN wire
  /\ "arrayValue" \in DOMAIN wire =>
       \A i \in 1..Len(wire.arrayValue.values) : NoReference(wire.arrayValue.values[i])
  /\ "mapValue" \in DOMAIN wire =>
       \A i \in 1..Len(wire.mapValue.fields) : NoReference(wire.mapValue.fields[i].val)

\* the operand of a data field: encoded by the codec once sanitised, no reference in it
DataOperandEncoded(leaf) ==
  /\ SessionHandle # NULL => calls # <<>>
  /\ calls # <<>> =>
       /\ CompiledOperand = convert_field_to_value(replaceUndefinedWithNull(leaf.value))
       /\ NoReference(CompiledOperand)
       /\ leaf.value.t = "string" => CompiledOperand = [stringValue |-> leaf.value.s]
       /\ leaf.value.t = "undefined" => CompiledOperand = [nullValue |-> "NULL_VALUE"]

\* C8 as claimed: a __name__ operand compiles to a reference value (a single
\* non-empty string) or an array of reference values (an array), and a
\* non-string or empty-string operand is rejected; any other field's operand
\* goes through the value codec after sanitising and holds no reference.
C8_EncodingAsClaimed ==
  SingleLeaf =>
    LET leaf == LastFilters[1]
        v == leaf.value
    IN  IF leaf.fieldName = DOCUMENT_ID_FIELD
        THEN /\ calls # <<>> =>
                  \/ v.t = "string" /\ v.s # <<>> /\ IsReference(CompiledOperand)
                  \/ v.t = "array" /\ IsArrayOfReferences(CompiledOperand)
             /\ (v.t \notin {"string", "array"} \/ (v.t = "string" /\ v.s = <<>>)) =>
                  ~outcome.ok /\ outcome.err = DOCUMENT_ID_VALUE_MESSAGE /\ calls = <<>>
        ELSE DataOperandEncoded(leaf)

RECURSIVE MirrorsOperand(_, _)
\* wire is the operand with every id or path replaced by its reference:
\* a string gives a reference value, an array an array value of the same
\* length whose elements mirror the operand's, in order
MirrorsOperand(wire, v) ==
  IF v.t = "array"
  THEN /\ DOMAIN wire = {"arrayValue"}
       /\ Len(wire.arrayValue.values) = Len(v.a)
       /\ \A i \in 1..Len(v.a) : MirrorsOperand(wire.arrayValue.values[i], v.a[i])
  ELSE /\ v.t = "string" /\ v.s # <<>>
       /\ wire = [referenceValue |->
                    ExpectedReference(SessionHandle.project_id, helper.collectionSegments, v.s)]

RECURSIVE HasBadId(_)
\* the operand is, or holds at some depth, a non-string or an empty string
HasBadId(v) ==
  IF v.t = "array" THEN \E i \in 1..Len(v.a) : HasBadId(v.a[i])
  ELSE v.t # "string" \/ v.s = <<>>

\* C8, amended: a __name__ operand compiles to a reference value (a single
\* non-empty string) or to an array value that mirrors the operand array,
\* element by element and level by level, so that all its leaves are
\* reference values; an operand that is or holds a non-string or an empty
\* string is rejected; any other field's operand goes through the value codec
\* after sanitising and holds no reference, whatever the filter type.
C8_OperandEncoding ==
  SingleLeaf =>
    LET leaf == LastFilters[1]
        v == leaf.value
    IN  IF leaf.fieldName = DOCUMENT_ID_FIELD
        THEN /\ calls # <<>> => MirrorsOperand(CompiledOperand, v)
             /\ HasBadId(v) => ~outcome.ok /\ calls = <<>>
             /\ (v.t \notin {"string", "array"} \/ (v.t = "string" /\ v.s = <<>>)) =>
                  outcome.err = DOCUMENT_ID_VALUE_MESSAGE
             /\ ~HasBadId(v) /\ SessionHandle # NULL => calls # <<>>
        ELSE DataOperandEncoded(leaf)

\* C8 witness: a path-like string on a data field went out as a string value
C8_Witness ==
  /\ SingleLeaf /\ calls # <<>>
  /\ LastFilters[1].fieldName = <<"f">>
  /\ LastFilters[1].value = JsStr(<<"a", "/", "b">>)
  /\ LastFilters[1].filterType = DataFilterType.whereIn
  /\ CompiledOperand = [stringValue |-> <<"a", "/", "b">>]

\* C9: every query call has exactly one `from` entry, the last segment of the
\* helper's collection path, and is sent with the earlier segments as parent
\* segments, in order: parent segments + collectionId = the collection path.
C9_FromAndParentSegments ==
  /\ helper # NoHelper =>
       helper.parentDocumentSegments \o <<helper.collectionId>> = helper.collectionSegments
  /\ \A i \in 1..Len(calls) :
       calls[i].op = "query" =>
         LET C == helper.collectionSegments
             q == calls[i].structuredQuery
         IN  /\ last.op \in {"getData", "getSingleDocument", "getDocsByIds"}
             /\ Len(q.from) = 1
             /\ q.from[1] = [collectionId |-> C[Len(C)]]
             /\ calls[i].paths = SubSeq(C, 1, Len(C) - 1)
             /\ calls[i].paths \o <<q.from[1].collectionId>> = C

\* C9 witness: getData on a nested collection sent its query with two parent segments
C9_Witness ==
  /\ last.op = "getData" /\ calls # <<>>
  /\ Len(calls[1].paths) = 2
  /\ calls[1].structuredQuery.from[1].collectionId # calls[1].paths[1]

\* C10: the query carries limit = n exactly when the supplied limit n is
\* positive, and no limit key when it is zero, negative or absent.
C10_LimitOnlyWhenPositive ==
  last.op = "getData" /\ calls # <<>> =>
    IF "limit" \in DOMAIN last.params /\ last.params.limit > 0
    THEN "limit" \in DOMAIN IssuedQuery /\ IssuedQuery.limit = last.params.limit
    ELSE "limit" \notin DOMAIN IssuedQuery

\* C11: the query getData issues has an orderBy key exactly when sortBy was
\* given, and then orderBy is a list of exactly one entry whose fieldPath is
\* sortBy.field and whose direction is ASCENDING when sortBy.ascending is
\* true and DESCENDING when it is false.
C11_OrderByFromSortBy ==
  last.op = "getData" /\ calls # <<>> =>
    IF "sortBy" \in DOMAIN last.params
    THEN /\ "orderBy" \in DOMAIN IssuedQuery
         /\ Len(IssuedQuery.orderBy) = 1
         /\ IssuedQuery.orderBy[1].field = [fieldPath |-> last.params.sortBy.field]
         /\ last.params.sortBy.ascending => IssuedQuery.orderBy[1].direction = "ASCENDING"
         /\ ~last.params.sortBy.ascending => IssuedQuery.orderBy[1].direction = "DESCENDING"
    ELSE "orderBy" \notin DOMAIN IssuedQuery

\* C11 witness: a descending sort on g.h went out, next to a filter and a limit
C11_Witness ==
  /\ last.op = "getData" /\ calls # <<>>
  /\ "sortBy" \in DOMAIN last.params /\ ~last.params.sortBy.ascending
  /\ last.params.sortBy.field = <<"g", ".", "h">>
  /\ "where" \in DOMAIN IssuedQuery /\ "limit" \in DOMAIN IssuedQuery
  /\ IssuedQuery.orderBy[1].direction = "DESCENDING"

\* the number of non-empty segments of a slash-delimited string: its maximal
\* runs of characters other than '/'
RunsOf(p) == Cardinality({i \in 1..Len(p) : p[i] # "/" /\ (i = 1 \/ p[i - 1] = "/")})

\* the segments that remain of a path once the empty ones are dropped
RemainingSegments(collectionPath) ==
  IF collectionPath.t = "array"
  THEN Cardinality({i \in 1..Len(collectionPath.a) : collectionPath.a[i] # <<>>})
  ELSE RunsOf(collectionPath.s)

RECURSIVE Flatten(_)
\* the segments one after the other, without separator
Flatten(segments) ==
  IF segments = <<>> THEN <<>> ELSE Head(segments) \o Flatten(Tail(segments))

\* segments are what remains of the path given: none empty, in the order
\* given; of a string, none holds a '/' and together they are its characters
\* other than '/'; of a list, they are its non-empty entries
BoundTo(segments, collectionPath) ==
  /\ Len(segments) = RemainingSegments(collectionPath)
  /\ \A i \in 1..Len(segments) : segments[i] # <<>>
  /\ IF collectionPath.t = "array"
     THEN \E keep \in SUBSET (1..Len(collectionPath.a)) :
            /\ \A i \in 1..Len(collectionPath.a) : i \in keep <=> collectionPath.a[i] # <<>>
            /\ \A i \in keep :
                 segments[Cardinality({j \in keep : j <= i})] = collectionPath.a[i]
     ELSE /\ \A i \in 1..Len(segments) : ~Includes(segments[i], "/")
          /\ Flatten(segments) = SelectSeq(collectionPath.s, LAMBDA c : c # "/")

\* the shape every constructed helper has
PathShape(h) ==
  /\ Len(h.collectionSegments) >= 1 /\ Len(h.collectionSegments) % 2 = 1
  /\ Len(h.parentDocumentSegments) % 2 = 0
  /\ h.parentDocumentSegments \o <<h.collectionId>> = h.collectionSegments

\* what a constructor call did, given the path it was handed
ConstructedAsClaimed ==
  last.op = "constructor" =>
    LET n == RemainingSegments(last.collectionPath)
    IN  /\ calls = <<>>
        /\ n = 0 => ~outcome.ok /\ outcome.err = NO_SEGMENT_MESSAGE
        /\ n > 0 /\ n % 2 = 0 => ~outcome.ok /\ outcome.err = EVEN_PATH_MESSAGE
        /\ n % 2 = 1 =>
             /\ outcome.ok
             /\ BoundTo(helper.collectionSegments, last.collectionPath)
             /\ helper.db = last.db

\* a step changes the helper the caller holds only by constructing one
HelperOnlyConstructed ==
  helper' # helper => last'.op = "constructor" /\ outcome'.ok

\* C12: the constructor drops the empty segments of a slash-delimited string
\* or of a list of segments, fails with an error when none remains or when
\* an even number remains, and otherwise binds the remaining segments; every
\* constructed helper has a bound path of odd length at least 1 and a parent
\* path of even length, and no operation on the helper changes them.
C12_PathShapeAtConstruction ==
  /\ [](ConstructedAsClaimed /\ (helper # NoHelper => PathShape(helper)))
  /\ [][HelperOnlyConstructed]_vars

\* C12 witness: a delete went through a helper of three segments, bound from
\* a path with an empty segment in it, and the helper is as it was built
C12_Witness ==
  /\ last.op = "deleteDocument" /\ calls # <<>>
  /\ Len(helper.collectionSegments) = 3
  /\ helper.collectionSegments[2] = <<"a", "/", "b">>
  /\ calls[1].paths = helper.collectionSegments \o <<last.docId>>

WriteOps == {"addData", "updateField", "deleteDocument"}

\* the transport operation a write goes out as
TransportOf(op) ==
  CASE op = "addData" -> "set"
    [] op = "updateField" -> "update"
    [] op = "deleteDocument" -> "remove"

\* an id no document can have: empty, or with a '/' in it
InvalidDocId(docId) == docId = <<>> \/ \E i \in 1..Len(docId) : docId[i] = "/"

\* C13: addData, updateField and deleteDocument called with an empty
\* document id or one containing '/' fail with the document-id error and make
\* no transport call; called with a valid id, the call they make is the one
\* set, update or remove call whose path is the bound collection segments
\* followed by that id.
C13_DocIdValidatedBeforeWrite ==
  last.op \in WriteOps =>
    IF InvalidDocId(last.docId)
    THEN ~outcome.ok /\ outcome.err = DOCUMENT_ID_MESSAGE /\ calls = <<>>
    ELSE /\ Len(calls) <= 1
         /\ \A i \in 1..Len(calls) :
              /\ calls[i].op = TransportOf(last.op)
              /\ calls[i].paths = helper.collectionSegments \o <<last.docId>>
         /\ calls = <<>> => ~outcome.ok /\ outcome.err # DOCUMENT_ID_MESSAGE

\* C13 witness: updateField with the id 'a/b', on a helper that has a handle
\* and a payload to send, failed without an update call
C13_Witness ==
  /\ last.op = "updateField" /\ last.docId = <<"a", "/", "b">>
  /\ helper.db # NULL /\ last.updateFields # JsObj(<<>>)
  /\ ~outcome.ok /\ calls = <<>>

RECURSIVE NullForUndefined(_)
\* the value with each undefined in it replaced by null -- at the top level,
\* in maps and in arrays, at any depth -- and nothing else changed
NullForUndefined(v) ==
  CASE v.t = "undefined" -> JsNull
    [] v.t = "array" -> JsArr([i \in 1..Len(v.a) |-> NullForUndefined(v.a[i])])
    [] v.t = "object" ->
         JsObj([i \in 1..Len(v.e) |-> [key |-> v.e[i].key, val |-> NullForUndefined(v.e[i].val)]])
    [] OTHER -> v

\* C14: addData called with a valid document id and a session handle at
\* hand issues exactly one set call, carrying the document path, the payload
\* with every undefined replaced by null and nothing else changed, and a
\* trailing {merge: true} options argument when merge is true, no options
\* argument when merge is false or omitted.
C14_SetCallAndMergeFlag ==
  last.op = "addData" /\ ~InvalidDocId(last.docId) /\ SessionHandle # NULL =>
    /\ outcome.ok
    /\ Len(calls) = 1 /\ calls[1].op = "set"
    /\ calls[1].db = SessionHandle
    /\ calls[1].paths = helper.collectionSegments \o <<last.docId>>
    /\ calls[1].fields = NullForUndefined(last.data)
    /\ last.merge = "true" => "options" \in DOMAIN calls[1] /\ calls[1].options = [merge |-> TRUE]
    /\ last.merge \in {"false", "omitted"} => "options" \notin DOMAIN calls[1]

\* the body the network answered with holds an error envelope
HasErrorEnvelope(response) == response.kind = "json" /\ "error" \in DOMAIN response.body

\* C15: get and update make exactly one request, whatever comes back; when
\* the response body holds an error envelope they throw an error whose
\* message is the envelope's message, verbatim, and return no document; they
\* return a document, the decoded one, only when the body has no error key.
C15_UpstreamErrorSurfaced ==
  last.op \in {"get", "update"} =>
    /\ Len(calls) = 1 /\ calls[1].op = "fetch"
    /\ HasErrorEnvelope(last.response) =>
         ~outcome.ok /\ outcome.err = last.response.body.error.message
    /\ outcome.ok =>
         /\ last.response.kind = "json" /\ "error" \notin DOMAIN last.response.body
         /\ outcome.val.id = <<"b">>
         /\ \A i \in 1..Len(outcome.val.fields) :
              convert_field_to_value(outcome.val.fields[i].val) = last.response.body.fields[i].val

\* C15 witness: get was answered with an error envelope next to a document's
\* keys, and threw the envelope's message
C15_Witness ==
  /\ last.op = "get"
  /\ HasErrorEnvelope(last.response) /\ "name" \in DOMAIN last.response.body
  /\ ~outcome.ok /\ outcome.err = "Missing or insufficient permissions."
  /\ Len(calls) = 1

\* the keys of the fields handed to update: what the caller asked to change
ProvidedKeys(fields) == {fields.e[i].key : i \in 1..Len(fields.e)}

\* the values a request carries under a search parameter, in order
ParamValues(request, name) ==
  LET hits == SelectSeq(request.endpoint.searchParams, LAMBDA p : p[1] = name)
  IN  [i \in 1..Len(hits) |-> hits[i][2]]

\* fields a stored document may hold besides the ones update names
StoredFieldPaths == FieldKeys \cup {"createdBy"}

\* The field paths a PATCH touches (README, set / Behavior): with an update
\* mask, the masked paths; without one the document is overwritten, so
\* every field it holds.
TouchedFieldPaths(request) ==
  LET mask == ParamValues(request, "updateMask.fieldPaths")
  IN  IF mask = <<>> THEN StoredFieldPaths ELSE {mask[i] : i \in 1..Len(mask)}

\* C17: the request update sends is a PATCH to the path made of every
\* argument but the last, whose body is the document of the last argument,
\* with currentDocument.exists=true and exactly one updateMask.fieldPaths
\* entry per key of the fields, so that it touches only the field paths
\* provided.
C17_UpdateIsMaskedPatch ==
  last.op = "update" =>
    LET request == calls[1]
        paths == SubSeq(last.args, 1, Len(last.args) - 1)
        fields == last.args[Len(last.args)]
        mask == ParamValues(request, "updateMask.fieldPaths")
    IN  /\ Len(calls) = 1
        /\ request.method = "PATCH"
        /\ request.endpoint.resource =
             PROJECTS \o last.firestore.project_id \o DATABASES_DOCUMENTS \o Join(paths, "/")
        /\ request.body = create_document_from_fields(fields)
        /\ ParamValues(request, "currentDocument.exists") = <<"true">>
        /\ Len(mask) = Cardinality(ProvidedKeys(fields))
        /\ {mask[i] : i \in 1..Len(mask)} = ProvidedKeys(fields)
        /\ TouchedFieldPaths(request) \subseteq ProvidedKeys(fields)

\* C16: for every native value -- null, boolean, number, string, binary
\* payload, date/time value, array, map, nested to any depth -- the sanitiser
\* returns the value with each undefined replaced by null and everything
\* else, date/time and binary leaves included, unchanged; sanitising the
\* result again changes nothing.
C16_SanitiserChangesOnlyUndefined ==
  last.op = "replaceUndefinedWithNull" =>
    /\ outcome.ok
    /\ outcome.val.sanitized = NullForUndefined(last.value)
    /\ replaceUndefinedWithNull(outcome.val.sanitized) = outcome.val.sanitized

\* an initialize() call completed in this step
InitializeCompletes == last = Idle /\ last'.op = "initialize"

\* C18: the completion of an initialize() call that was started before the
\* last reset(), or before a call that has completed with a handle since,
\* leaves the held handle as it is: after a reset the provider stays
\* uninitialized until a call started after it completes, and of overlapping
\* calls the one started last decides the handle.
C18_ResetBeatsInflightInitialize ==
  [][InitializeCompletes /\ last'.superseded => db' = db]_vars

\* C19: an initialize() whose mint rejects rejects with the mint's error and
\* leaves the held handle exactly as it was, absent or not; the held handle
\* changes only when an initialize() completes successfully, to the handle
\* that call returns, or when reset() is called.
C19_FailedInitializeChangesNothing ==
  /\ [](last.op = "initialize" /\ ~outcome.ok =>
          outcome \in init(last.params) /\ outcome.err = "AuthExchangeError")
  /\ [][/\ InitializeCompletes /\ ~outcome'.ok => db' = db
        /\ db' # db =>
             \/ InitializeCompletes /\ outcome'.ok /\ db' = outcome'.val
             \/ db' = NULL /\ UNCHANGED <<last, outcome, calls, helper>>]_vars

\* C19 witness: an initialize() failed on an initialized provider, which
\* still holds a handle
C19_Witness ==
  /\ last.op = "initialize" /\ ~outcome.ok
  /\ db # NULL
====
